---------------------------- MODULE Spec2Model ----------------------------
(***************************************************************************)
(* Model of youtubedownloader.pyw: the YouTubeDownloaderApp UI handlers,   *)
(* the download worker thread with its progress hook, the Tk event queue   *)
(* that carries root.after callbacks to the UI thread, and the pure        *)
(* helpers (percentage computation, rate formatter).                       *)
(*                                                                         *)
(* Conventions                                                             *)
(*  - Python str values are TLA+ strings.  The source's non-ASCII          *)
(*    punctuation is written in ASCII: the ellipsis as "...", the arrow    *)
(*    as "->", the dash as "-".                                            *)
(*  - A progress dict d is a record; a key the dict lacks is a field the   *)
(*    record lacks, and d.get(k) is Get(d, k): <<>> for None, <<v>> for v. *)
(*  - A byte rate is a natural number held as its base-1024 digits, least  *)
(*    significant first, without leading zero digits (0 is <<>>), because  *)
(*    rates such as 2 * 1024^3 exceed the model checker's integers.        *)
(*  - A Python float is held exactly: as a 53-bit mantissa with a binary   *)
(*    exponent in the percentage computation, as digits with a shift in    *)
(*    the rate formatter.                                                  *)
(***************************************************************************)
EXTENDS Integers, Sequences, FiniteSets, TLC

VARIABLES
    downloading,    \* self.downloading
    stop_flag,      \* self.stop_flag
    dl_btn,         \* state of self.dl_btn: "normal" | "disabled"
    progress,       \* value of self.progress (the progress bar)
    status_var,     \* self.status_var
    log_text,       \* lines of self.log_text, timestamps left out
    dest_var,       \* self.dest_var
    ffmpeg_path,    \* module global _FFMPEG_PATH ("" is None)
    yt_dlp,         \* module global yt_dlp: TRUE when the import succeeded
    after_queue,    \* callbacks handed to root.after(0, ...), oldest first
    workers,        \* the threads started by _start_download, in start order
    alert,          \* title of the messagebox the last UI handler raised, or ""
    last            \* the last step: which thread ran which handler on what

vars == <<downloading, stop_flag, dl_btn, progress, status_var, log_text,
          dest_var, ffmpeg_path, yt_dlp, after_queue, workers, alert, last>>

\* The state the UI thread owns: the single-flight flag, the widgets and the
\* message boxes.
ui_state == <<downloading, stop_flag, dl_btn, progress, status_var, log_text,
              dest_var, alert>>

\* The module globals, set once at import.
globals == <<ffmpeg_path, yt_dlp>>

----------------------------------------------------------------------------
(* Bounds of the model *)

\* Accepted submissions (worker threads) in one run.
MaxSubmits == 2
\* Progress-hook calls the downloader makes in one run.
MaxEvents == 1
\* Largest byte count of a progress event handed to the hook on its own.
MaxBytes == 50
\* Most base-1024 digits of a byte rate handed to the hook on its own.
MaxDigits == 4
\* Progress-hook calls in one download that reports more bytes than its total.
MaxHooks == 2

----------------------------------------------------------------------------
(* Python values *)

Min(a, b) == IF a < b THEN a ELSE b
Max(a, b) == IF a > b THEN a ELSE b

\* d.get(k): <<>> is None.
Get(d, k) == IF k \in DOMAIN d THEN <<d[k]>> ELSE <<>>

\* Truth value of an optional int: None and 0 are false.
TruthyInt(o) == o # <<>> /\ o[1] # 0

\* Truth value of an optional byte rate: None and 0 (no digits) are false.
TruthyRate(o) == o # <<>> /\ o[1] # <<>>

\* Truth value of an optional str: None and "" are false.
TruthyStr(o) == o # <<>> /\ o[1] # ""

\* a or b
PyOr(a, b) == IF TruthyInt(a) THEN a ELSE b

RECURSIVE LStrip(_)
LStrip(s) == IF s # "" /\ Head(s) = " " THEN LStrip(Tail(s)) ELSE s

RECURSIVE RStrip(_)
RStrip(s) ==
    IF s # "" /\ SubSeq(s, Len(s), Len(s)) = " "
    THEN RStrip(SubSeq(s, 1, Len(s) - 1))
    ELSE s

\* str.strip()
Strip(s) == RStrip(LStrip(s))

\* str.startswith(p)
StartsWith(s, p) == Len(s) >= Len(p) /\ SubSeq(s, 1, Len(p)) = p

\* str.upper() / str.lower() on the values of the format combobox.
Upper(s) ==
    CASE s = "mp3" -> "MP3" [] s = "wav" -> "WAV" [] s = "mp4" -> "MP4"
      [] OTHER -> s
Lower(s) ==
    CASE s = "MP3" -> "mp3" [] s = "WAV" -> "wav" [] s = "MP4" -> "mp4"
      [] OTHER -> s

----------------------------------------------------------------------------
(* Python float arithmetic of the percentage: int(downloaded / total * 100). *)
(* A double is [mant, exp]: 53 binary digits, most significant first, the   *)
(* first one 1 and of weight 2^exp.  Operands are ints below 2^22.          *)

\* Binary digits of the natural number n, most significant first (<<>> for 0).
NatBits(n) ==
    LET w == Cardinality({k \in 0..30 : 2^k <= n})
    IN  [i \in 1..w |-> (n \div 2^(w - i)) % 2]

\* The natural number whose binary digits are b[i..j].
RECURSIVE BitsNat(_, _, _)
BitsNat(b, i, j) ==
    IF i > j THEN 0
    ELSE IF i = j THEN b[i]
    ELSE LET m == (i + j) \div 2
         IN  BitsNat(b, i, m) * 2^(j - m) + BitsNat(b, m + 1, j)

\* The binary digits of a sequence of 9-bit limbs, most significant first.
LimbBits(limbs) ==
    [j \in 1..(9 * Len(limbs)) |->
        (limbs[(j - 1) \div 9 + 1] \div 2^(8 - ((j - 1) % 9))) % 2]

\* The 9-bit limbs of the binary digits b, whose length is a multiple of 9.
BitLimbs(b) ==
    [i \in 1..(Len(b) \div 9) |-> BitsNat(b, 9 * i - 8, 9 * i)]

Zeros(k) == [i \in 1..k |-> 0]

\* Index of the first 1 among the digits b from index i on, 0 when none.
FirstOne(b, i) ==
    LET ones == {j \in i..Len(b) : b[j] = 1}
    IN  IF ones = {} THEN 0 ELSE CHOOSE j \in ones : \A m \in ones : j <= m

\* b + 1 on binary digits; carry is 1 when every digit was 1.
IncBits(b) ==
    LET zeros == {j \in 1..Len(b) : b[j] = 0}
    IN  IF zeros = {} THEN [bits |-> Zeros(Len(b)), carry |-> 1]
        ELSE LET z == CHOOSE j \in zeros : \A m \in zeros : j >= m
             IN  [bits  |-> [j \in 1..Len(b) |->
                                IF j < z THEN b[j] ELSE IF j = z THEN 1 ELSE 0],
                  carry |-> 0]

\* The double nearest to the positive number whose digits are b (first digit
\* 1, of weight 2^exp), followed by more nonzero digits when sticky: IEEE-754
\* round to nearest, ties to even.
RoundDouble(b, sticky, exp) ==
    IF Len(b) <= 53
    THEN [mant |-> b \o Zeros(53 - Len(b)), exp |-> exp]
    ELSE LET keep  == SubSeq(b, 1, 53)
             guard == b[54]
             more  == sticky \/ FirstOne(b, 55) # 0
             up    == IncBits(keep)
         IN  IF guard = 1 /\ (more \/ keep[53] = 1)
             THEN IF up.carry = 1
                  THEN [mant |-> <<1>> \o Zeros(52), exp |-> exp + 1]
                  ELSE [mant |-> up.bits, exp |-> exp]
             ELSE [mant |-> keep, exp |-> exp]

\* floor(log2(a / b)) for ints a > 0, b > 0.
Log2Floor(a, b) ==
    IF a >= b
    THEN Cardinality({e \in 1..30 : a \div 2^e >= b})
    ELSE 0 - (1 + Cardinality({k \in 1..30 : (b - 1) \div 2^k >= a}))

\* The next k 9-bit limbs of the fraction r / d (0 <= r < d), and what is left
\* of r after them (long division).
RECURSIVE FracLimbs(_, _, _)
FracLimbs(r, d, k) ==
    IF k = 0 THEN [limbs |-> <<>>, rem |-> r]
    ELSE LET rest == FracLimbs((r * 512) % d, d, k - 1)
         IN  [limbs |-> <<(r * 512) \div d>> \o rest.limbs, rem |-> rest.rem]

\* a / b for ints a > 0, b > 0: Python's true division, correctly rounded.
TrueDiv(a, b) ==
    LET e  == Log2Floor(a, b)
        n  == IF e >= 0 THEN a ELSE a * 2^(0 - e)
        d  == IF e >= 0 THEN b * 2^e ELSE b
        fr == FracLimbs(n - d, d, 7)
    IN  RoundDouble(<<1>> \o LimbBits(fr.limbs), fr.rem # 0, e)

\* The limbs times the natural number n plus the carry c: as many limbs, and
\* the carry out of them.
RECURSIVE MulLimbs(_, _, _)
MulLimbs(limbs, n, c) ==
    IF limbs = <<>> THEN [limbs |-> <<>>, carry |-> c]
    ELSE LET k    == Len(limbs)
             t    == limbs[k] * n + c
             rest == MulLimbs(SubSeq(limbs, 1, k - 1), n, t \div 512)
         IN  [limbs |-> Append(rest.limbs, t % 512), carry |-> rest.carry]

\* x * n for a double x and an int n >= 1 that a double holds exactly.
MulInt(x, n) ==
    LET m == MulLimbs(BitLimbs(<<0>> \o x.mant), n, 0)
        p == NatBits(m.carry) \o LimbBits(m.limbs)
        f == FirstOne(p, 1)
    IN  RoundDouble(SubSeq(p, f, Len(p)), FALSE, x.exp + (Len(p) - f + 1) - 53)

\* int(x) for a positive double x below 2^31.
Trunc(x) == IF x.exp < 0 THEN 0 ELSE BitsNat(x.mant, 1, x.exp + 1)

\* int(downloaded / total * 100), for downloaded > 0 and total > 0.
Percent(downloaded, total) == Trunc(MulInt(TrueDiv(downloaded, total), 100))

----------------------------------------------------------------------------
(* Rate formatter *)

units == <<"B/s", "KB/s", "MB/s", "GB/s">>

\* The natural number with the base-1024 digits ds, least significant first.
RECURSIVE DigitsNat(_)
DigitsNat(ds) ==
    IF ds = <<>> THEN 0 ELSE ds[1] + 1024 * DigitsNat(Tail(ds))

\* 10 * f as a multiple of d and a rest: 10 * f = q * d + r, 0 <= r < d,
\* for d a power of 1024 and 0 <= f < d, without a product above 2^31.
TenTimesMod(f, d) ==
    IF d = 1 THEN [q |-> 0, r |-> 0]
    ELSE LET dh == d \div 1024
             a  == 10 * (f \div 1024) + (10 * (f % 1024)) \div 1024
         IN  [q |-> a \div dh,
              r |-> ((a % dh) * 1024) + ((10 * (f % 1024)) % 1024)]

\* rate > 1024 in the place of rate >= 1024.
RateGt1024(digits, i) ==
    /\ Len(digits) - i >= 2
    /\ \/ Len(digits) - i > 2
       \/ digits[i + 2] > 1
       \/ \E j \in 1..(i + 1) : digits[j] # 0

\* The float rate after i divisions by 1024 is digits / 1024^i, held exactly
\* for rates below 2^53.  rate >= 1024: its integer part has two digits.
RateGe1024(digits, i) == Len(digits) - i >= 2

\* while rate >= 1024 and i < len(units) - 1: rate /= 1024.0; i += 1
RECURSIVE RateLoop(_, _)
RateLoop(digits, i) ==
    IF RateGe1024(digits, i) /\ i < Len(units) - 1
    THEN RateLoop(digits, i + 1)
    ELSE i

\* f"{rate:.1f}" for rate = digits / 1024^i: the nearest tenth, a tie going
\* to the even one.
FormatF1(digits, i) ==
    LET ip     == DigitsNat(SubSeq(digits, i + 1, Len(digits)))
        f      == DigitsNat(SubSeq(digits, 1, Min(i, Len(digits))))
        d      == 1024^i
        t      == TenTimesMod(f, d)
        up     == 2 * t.r > d \/ (2 * t.r = d /\ t.q % 2 = 1)
        tenths == 10 * ip + t.q + (IF up THEN 1 ELSE 0)
    IN  ToString(tenths \div 10) \o "." \o ToString(tenths % 10)

\* _human_readable_rate(bps), bps an optional byte rate.
_human_readable_rate(bps) ==
    IF ~TruthyRate(bps) THEN ""
    ELSE LET i == RateLoop(bps[1], 0)
         IN  FormatF1(bps[1], i) \o " " \o units[i + 1]

----------------------------------------------------------------------------
(* The environment: what the user can type and choose, the file system, the *)
(* external downloader.                                                     *)

\* Contents of the URL entry at a click on Download.
Urls == {"", " ", " u "}
\* Values of the read-only format combobox.
Formats == {"mp3", "wav", "mp4"}
\* os.path.expanduser("~")
HomeDir == "/home"
\* What filedialog.askdirectory() can return; "" when the dialog is cancelled.
Paths == {"", HomeDir, "/gone"}
\* os.path.isdir
IsDir(path) == path \in {HomeDir}
\* The two ways the module's FFmpeg detection can end ("" is None).
FfmpegPaths == {"", "/usr/bin/ffmpeg"}

\* Progress dicts the downloader hands to the hook.
Events ==
    { [status |-> "downloading", downloaded_bytes |-> 50, total_bytes |-> 100,
       speed |-> <<512, 1>>, eta |-> 5],
      [status |-> "finished", filename |-> "f"] }
\* info.get('title') of the info the downloader returns.
Titles == {"T"}
\* str(e) of the exception the downloader raises.
Errors == {"boom"}

----------------------------------------------------------------------------
(* Bookkeeping shared by the handlers *)

\* self._append_log(msg): one more line at the end of the log.
_append_log(msg) == log_text' = Append(log_text, msg)

\* root.after as it would be if the newest callback ran first.
AfterNewestFirst(cb) == after_queue' = <<cb>> \o after_queue

\* self.root.after(0, fn, *args): one more callback at the end of the queue.
after(cb) == after_queue' = Append(after_queue, cb)

\* messagebox.showerror(title, ...)
showerror(title) == alert' = title

\* Hook calls made so far by the downloader, over all workers.
RECURSIVE HookCalls(_)
HookCalls(ws) == IF ws = <<>> THEN 0 ELSE Head(ws).hooks + HookCalls(Tail(ws))

\* What last records of a step, and of a step that was handed a progress dict.
Step(thread, op) == [thread |-> thread, op |-> op]
StepOn(thread, op, d) == [thread |-> thread, op |-> op, d |-> d]

----------------------------------------------------------------------------
(* UI thread: the handlers of YouTubeDownloaderApp.  A handler says what it *)
(* does to everything but after_queue, which belongs to the event loop.    *)

\* __init__ with _check_dependencies, up to the start of the main loop.
Init ==
    /\ ffmpeg_path \in FfmpegPaths
    /\ yt_dlp \in BOOLEAN
    /\ downloading = FALSE
    /\ stop_flag = FALSE
    /\ dl_btn = "normal"
    /\ progress = 0
    /\ status_var = "Idle"
    /\ dest_var = HomeDir
    /\ alert = IF yt_dlp THEN "" ELSE "Missing Dependency"
    /\ log_text = << IF ffmpeg_path = ""
                     THEN "Warning: FFmpeg not found. MP3/WAV extraction will"
                          \o " fail until FFmpeg is installed (system or"
                          \o " imageio-ffmpeg)."
                     ELSE "FFmpeg detected: " \o ffmpeg_path >>
    /\ after_queue = <<>>
    /\ workers = <<>>
    /\ last = Step("ui", "__init__")

_choose_folder(path) ==
    /\ dest_var' = IF path # "" THEN path ELSE dest_var
    /\ alert' = ""
    /\ last' = Step("ui", "_choose_folder")
    /\ UNCHANGED <<downloading, stop_flag, dl_btn, progress, status_var,
                   log_text, workers, globals>>

_clear_log ==
    /\ log_text' = <<>>
    /\ alert' = ""
    /\ last' = Step("ui", "_clear_log")
    /\ UNCHANGED <<downloading, stop_flag, dl_btn, progress, status_var,
                   dest_var, workers, globals>>

\* A rejection as it would be if the UI were put into the running state
\* before the checks and not after them.
RejectedAfterStarting(title) ==
    /\ showerror(title)
    /\ progress' = 0
    /\ status_var' = "Starting..."
    /\ UNCHANGED <<downloading, stop_flag, dl_btn, log_text, workers>>

\* A submission rejected by a message box: nothing but the box.
Rejected(title) ==
    /\ showerror(title)
    /\ UNCHANGED <<downloading, stop_flag, dl_btn, progress, status_var,
                   log_text, workers>>

\* The thread started for an accepted submission, about to call the downloader.
NewWorker(url, out_dir, fmt) ==
    [pc |-> "call", url |-> url, out_dir |-> out_dir, fmt |-> fmt,
     hooks |-> 0, result |-> "pending"]

\* Lines 177-186 without line 180, which disables the Download button.
AcceptedButtonLeftEnabled(url, out_dir, fmt) ==
    /\ Len(workers) < MaxSubmits
    /\ downloading' = TRUE
    /\ stop_flag' = FALSE
    /\ UNCHANGED dl_btn
    /\ progress' = 0
    /\ status_var' = "Starting..."
    /\ _append_log("Queued download: " \o url \o " -> " \o Upper(fmt)
                   \o " in " \o out_dir)
    /\ workers' = Append(workers, NewWorker(url, out_dir, fmt))
    /\ alert' = ""

\* The submission passed every check: lines 177-186.
Accepted(url, out_dir, fmt) ==
    /\ Len(workers) < MaxSubmits
    /\ downloading' = TRUE
    /\ stop_flag' = FALSE
    /\ dl_btn' = "disabled"
    /\ progress' = 0
    /\ status_var' = "Starting..."
    /\ _append_log("Queued download: " \o url \o " -> " \o Upper(fmt)
                   \o " in " \o out_dir)
    /\ workers' = Append(workers, NewWorker(url, out_dir, fmt))
    /\ alert' = ""

\* Lines 160-186 of _start_download without lines 170-172, the FFmpeg check.
ValidateWithoutFfmpeg(url_text, fmt_text) ==
    LET url     == Strip(url_text)
        out_dir == Strip(dest_var)
        fmt     == Lower(Strip(fmt_text))
    IN  IF url = "" THEN Rejected("No URL")
        ELSE IF ~IsDir(out_dir) THEN Rejected("Invalid Folder")
        ELSE IF ~yt_dlp THEN Rejected("yt-dlp not installed")
        ELSE Accepted(url, out_dir, fmt)

\* Lines 160-186 of _start_download with the FFmpeg check of lines 170-172
\* made for every format.
ValidateFfmpegAlways(url_text, fmt_text) ==
    LET url     == Strip(url_text)
        out_dir == Strip(dest_var)
        fmt     == Lower(Strip(fmt_text))
    IN  IF url = "" THEN Rejected("No URL")
        ELSE IF ~IsDir(out_dir) THEN Rejected("Invalid Folder")
        ELSE IF ffmpeg_path = "" THEN Rejected("FFmpeg required")
        ELSE IF ~yt_dlp THEN Rejected("yt-dlp not installed")
        ELSE Accepted(url, out_dir, fmt)

\* Lines 160-186 of _start_download with the folder checked before the URL.
ValidateFolderFirst(url_text, fmt_text) ==
    LET url     == Strip(url_text)
        out_dir == Strip(dest_var)
        fmt     == Lower(Strip(fmt_text))
    IN  IF ~IsDir(out_dir) THEN Rejected("Invalid Folder")
        ELSE IF url = "" THEN Rejected("No URL")
        ELSE IF fmt \in {"mp3", "wav"} /\ ffmpeg_path = ""
             THEN Rejected("FFmpeg required")
        ELSE IF ~yt_dlp THEN Rejected("yt-dlp not installed")
        ELSE Accepted(url, out_dir, fmt)

\* Lines 160-186 of _start_download: the inputs are read and checked, and
\* the download is started when every check passes.
Validate(url_text, fmt_text) ==
    LET url     == Strip(url_text)
        out_dir == Strip(dest_var)
        fmt     == Lower(Strip(fmt_text))
    IN  IF url = "" THEN Rejected("No URL")
        ELSE IF ~IsDir(out_dir) THEN Rejected("Invalid Folder")
        ELSE IF fmt \in {"mp3", "wav"} /\ ffmpeg_path = ""
             THEN Rejected("FFmpeg required")
        ELSE IF ~yt_dlp THEN Rejected("yt-dlp not installed")
        ELSE Accepted(url, out_dir, fmt)

\* Lines 157-158 as they would be if a click on Download during a download
\* cancelled it.
IgnoredCancels ==
    /\ alert' = ""
    /\ downloading' = FALSE
    /\ stop_flag' = TRUE
    /\ dl_btn' = "normal"
    /\ UNCHANGED <<progress, status_var, log_text, workers>>

\* Lines 157-158: the submission made while a download is running.
Ignored ==
    /\ alert' = ""
    /\ UNCHANGED <<downloading, stop_flag, dl_btn, progress, status_var,
                   log_text, workers>>

\* _start_download without its first two lines, the check of self.downloading.
StartDownloadUnguarded(url_text, fmt_text) ==
    /\ last' = Step("ui", "_start_download")
    /\ UNCHANGED <<dest_var, globals>>
    /\ Validate(url_text, fmt_text)

\* _start_download with url_var holding url_text and format_var holding
\* fmt_text.
_start_download(url_text, fmt_text) ==
    /\ last' = Step("ui", "_start_download")
    /\ UNCHANGED <<dest_var, globals>>
    /\ IF downloading THEN Ignored ELSE Validate(url_text, fmt_text)

\* _update_progress without the test of line 256: every update is logged.
UpdateProgressLogsAlways(percent, d) ==
    LET spd     == Get(d, "speed")
        eta     == Get(d, "eta")
        rate    == IF TruthyRate(spd)
                   THEN " @ " \o _human_readable_rate(spd) ELSE ""
        eta_txt == IF TruthyInt(eta)
                   THEN " - ETA " \o ToString(eta[1]) \o "s" ELSE ""
        text    == "Downloading... " \o ToString(percent) \o "%" \o rate
                   \o eta_txt
    IN  /\ progress' = Max(0, Min(100, percent))
        /\ status_var' = text
        /\ _append_log(text)
        /\ alert' = ""
        /\ last' = StepOn("ui", "_update_progress", d)
        /\ UNCHANGED <<downloading, stop_flag, dl_btn, dest_var, workers,
                       globals>>

\* _update_progress without the clamp of line 249.
UpdateProgressUnclamped(percent, d) ==
    LET spd     == Get(d, "speed")
        eta     == Get(d, "eta")
        rate    == IF TruthyRate(spd)
                   THEN " @ " \o _human_readable_rate(spd) ELSE ""
        eta_txt == IF TruthyInt(eta)
                   THEN " - ETA " \o ToString(eta[1]) \o "s" ELSE ""
        text    == "Downloading... " \o ToString(percent) \o "%" \o rate
                   \o eta_txt
    IN  /\ progress' = percent
        /\ status_var' = text
        /\ IF percent % 5 = 0 THEN _append_log(text) ELSE UNCHANGED log_text
        /\ alert' = ""
        /\ last' = StepOn("ui", "_update_progress", d)
        /\ UNCHANGED <<downloading, stop_flag, dl_btn, dest_var, workers,
                       globals>>

_update_progress(percent, d) ==
    LET spd     == Get(d, "speed")
        eta     == Get(d, "eta")
        rate    == IF TruthyRate(spd)
                   THEN " @ " \o _human_readable_rate(spd) ELSE ""
        eta_txt == IF TruthyInt(eta)
                   THEN " - ETA " \o ToString(eta[1]) \o "s" ELSE ""
        text    == "Downloading... " \o ToString(percent) \o "%" \o rate
                   \o eta_txt
    IN  /\ progress' = Max(0, Min(100, percent))
        /\ status_var' = text
        /\ IF percent % 5 = 0 THEN _append_log(text) ELSE UNCHANGED log_text
        /\ alert' = ""
        /\ last' = StepOn("ui", "_update_progress", d)
        /\ UNCHANGED <<downloading, stop_flag, dl_btn, dest_var, workers,
                       globals>>

\* _on_download_finished as it would be if the finished file were neither
\* logged nor shown in the status.
OnDownloadFinishedSilent(d) ==
    /\ alert' = ""
    /\ last' = StepOn("ui", "_on_download_finished", d)
    /\ UNCHANGED <<downloading, stop_flag, dl_btn, progress, status_var,
                   log_text, dest_var, workers, globals>>

_on_download_finished(d) ==
    LET name     == Get(d, "filename")
        filename == IF TruthyStr(name) THEN name[1] ELSE "output"
    IN  /\ status_var' = "Post-processing..."
        /\ _append_log("Downloaded to: " \o filename)
        /\ alert' = ""
        /\ last' = StepOn("ui", "_on_download_finished", d)
        /\ UNCHANGED <<downloading, stop_flag, dl_btn, progress, dest_var,
                       workers, globals>>

\* An error callback that starts the download again by itself.
OnDownloadErrorRetry(err) ==
    /\ status_var' = "Error"
    /\ _append_log("ERROR: " \o err)
    /\ showerror("Download Error")
    /\ last' = Step("ui", "_on_download_error")
    /\ workers' = Append(workers, NewWorker("u", dest_var, "mp4"))
    /\ UNCHANGED <<downloading, stop_flag, dl_btn, progress, dest_var, globals>>

_on_download_error(err) ==
    /\ status_var' = "Error"
    /\ _append_log("ERROR: " \o err)
    /\ showerror("Download Error")
    /\ last' = Step("ui", "_on_download_error")
    /\ UNCHANGED <<downloading, stop_flag, dl_btn, progress, dest_var,
                   workers, globals>>

\* _reset_ui without the check of the status text: "Done" in every case.
ResetUiAlwaysDone ==
    /\ downloading' = FALSE
    /\ dl_btn' = "normal"
    /\ status_var' = "Done"
    /\ alert' = ""
    /\ last' = Step("ui", "_reset_ui")
    /\ UNCHANGED <<stop_flag, progress, log_text, dest_var, workers, globals>>

_reset_ui ==
    /\ downloading' = FALSE
    /\ dl_btn' = "normal"
    /\ status_var' = IF ~StartsWith(status_var, "Error")
                     THEN "Done" ELSE status_var
    /\ alert' = ""
    /\ last' = Step("ui", "_reset_ui")
    /\ UNCHANGED <<stop_flag, progress, log_text, dest_var, workers, globals>>

\* _append_log run as a callback: line 241.
LogCallback(msg) ==
    /\ _append_log(msg)
    /\ alert' = ""
    /\ last' = Step("ui", "_append_log")
    /\ UNCHANGED <<downloading, stop_flag, dl_btn, progress, status_var,
                   dest_var, workers, globals>>

----------------------------------------------------------------------------
(* Worker thread: _download_worker(url, out_dir, fmt) of worker w.  A worker *)
(* step changes the worker's own position and the callback queue only.      *)

WorkerFrame == UNCHANGED <<ui_state, globals>>

Goto(w, pc) == workers' = [workers EXCEPT ![w].pc = pc]

\* A hook that writes the percentage to the widgets from the worker thread.
ProgressHookDirect(w, d) ==
    /\ workers[w].pc = "call"
    /\ workers' = [workers EXCEPT ![w].hooks = @ + 1]
    /\ progress' = 50
    /\ status_var' = "Downloading... 50%"
    /\ last' = StepOn("worker", "progress_hook", d)
    /\ UNCHANGED <<downloading, stop_flag, dl_btn, log_text, dest_var, alert,
                   after_queue, globals>>

\* A hook that drops the dicts it can compute no percentage for.
ProgressHookSkipsUnknown(w, d) ==
    /\ workers[w].pc = "call"
    /\ workers' = [workers EXCEPT ![w].hooks = @ + 1]
    /\ IF d.status = "downloading"
       THEN LET total      == PyOr(Get(d, "total_bytes"),
                                   Get(d, "total_bytes_estimate"))
                downloaded == Get(d, "downloaded_bytes")
            IN  IF TruthyInt(total) /\ TruthyInt(downloaded)
                THEN after([fn |-> "_update_progress",
                            percent |-> Percent(downloaded[1], total[1]),
                            d |-> d])
                ELSE UNCHANGED after_queue
       ELSE IF d.status = "finished"
       THEN after([fn |-> "_on_download_finished", d |-> d])
       ELSE UNCHANGED after_queue
    /\ last' = StepOn("worker", "progress_hook", d)
    /\ WorkerFrame

\* progress_hook(d), called by the downloader inside extract_info.
progress_hook(w, d) ==
    /\ workers[w].pc = "call"
    /\ workers' = [workers EXCEPT ![w].hooks = @ + 1]
    /\ IF d.status = "downloading"
       THEN LET total      == PyOr(Get(d, "total_bytes"),
                                   Get(d, "total_bytes_estimate"))
                downloaded == Get(d, "downloaded_bytes")
                percent    == IF TruthyInt(total) /\ TruthyInt(downloaded)
                              THEN Percent(downloaded[1], total[1])
                              ELSE 0
            IN  after([fn |-> "_update_progress", percent |-> percent,
                       d |-> d])
       ELSE IF d.status = "finished"
       THEN after([fn |-> "_on_download_finished", d |-> d])
       ELSE UNCHANGED after_queue
    /\ last' = StepOn("worker", "progress_hook", d)
    /\ WorkerFrame

\* ydl.extract_info(url, download=True) returns an info dict with this title,
\* and the rest of the try block runs: lines 239-241.
WorkerCompleted(w, info_title) ==
    /\ workers[w].pc = "call"
    /\ LET title == IF info_title # "" THEN info_title ELSE "video"
       IN  after([fn |-> "_append_log", msg |-> "Completed: " \o title])
    /\ workers' = [workers EXCEPT ![w].pc = "finally", ![w].result = "returned"]
    /\ last' = Step("worker", "_download_worker")
    /\ WorkerFrame

\* The except block ending the thread, as if the cleanup were the last
\* statement of the try block and not a finally block.
WorkerExceptNoFinally(w, err) ==
    /\ workers[w].pc = "call"
    /\ after([fn |-> "_on_download_error", err |-> err])
    /\ workers' = [workers EXCEPT ![w].pc = "done", ![w].result = "raised"]
    /\ last' = Step("worker", "_download_worker")
    /\ WorkerFrame

\* ydl.extract_info(url, download=True) raises an exception e with str(e) =
\* err, and the except block runs: lines 239, 242-243.
WorkerExcept(w, err) ==
    /\ workers[w].pc = "call"
    /\ after([fn |-> "_on_download_error", err |-> err])
    /\ workers' = [workers EXCEPT ![w].pc = "finally", ![w].result = "raised"]
    /\ last' = Step("worker", "_download_worker")
    /\ WorkerFrame

\* Lines 244-245: the finally block; the thread is then about to end.
WorkerFinally(w) ==
    /\ w \in DOMAIN workers
    /\ workers[w].pc = "finally"
    /\ after([fn |-> "_reset_ui"])
    /\ Goto(w, "exit")
    /\ last' = Step("worker", "_download_worker")
    /\ WorkerFrame

\* _download_worker returns and the thread started at lines 185-186 ends.
ThreadEnds(w) ==
    /\ workers[w].pc = "exit"
    /\ Goto(w, "done")
    /\ last' = Step("worker", "_download_worker")
    /\ UNCHANGED after_queue
    /\ WorkerFrame

----------------------------------------------------------------------------
(* The Tk event loop on the UI thread *)

\* A click on Download.
ClickDownload ==
    /\ UNCHANGED after_queue
    /\ \E url_text \in Urls, fmt_text \in Formats :
          _start_download(url_text, fmt_text)

\* A user event: a click on Download, Choose Folder or Clear Log.
UserEvent ==
    \/ ClickDownload
    \/ /\ UNCHANGED after_queue
       /\ \/ \E path \in Paths : _choose_folder(path)
          \/ _clear_log

\* The oldest callback scheduled with root.after runs.
RunCallback ==
    /\ after_queue # <<>>
    /\ after_queue' = Tail(after_queue)
    /\ LET cb == Head(after_queue)
       IN  \/ cb.fn = "_update_progress" /\ _update_progress(cb.percent, cb.d)
           \/ cb.fn = "_on_download_finished" /\ _on_download_finished(cb.d)
           \/ cb.fn = "_append_log" /\ LogCallback(cb.msg)
           \/ cb.fn = "_on_download_error" /\ _on_download_error(cb.err)
           \/ cb.fn = "_reset_ui" /\ _reset_ui

\* The downloader at work inside extract_info: it reports progress.
Downloader(w) ==
    /\ HookCalls(workers) < MaxEvents
    /\ \E d \in Events : progress_hook(w, d)

\* The downloader call of worker w ends, one way or the other.
CallEnds(w) ==
    \/ \E title \in Titles : WorkerCompleted(w, title)
    \/ \E err \in Errors : WorkerExcept(w, err)

Next ==
    \/ UserEvent
    \/ RunCallback
    \/ \E w \in DOMAIN workers : Downloader(w)
    \/ \E w \in DOMAIN workers : CallEnds(w)
    \/ \E w \in DOMAIN workers : WorkerFinally(w)
    \/ \E w \in DOMAIN workers : ThreadEnds(w)

Spec == Init /\ [][Next]_vars

\* The application with the Download button as the only control the user
\* touches: the other two controls change dest_var, log_text and alert only.
DownloadNext ==
    \/ ClickDownload
    \/ RunCallback
    \/ \E w \in DOMAIN workers : Downloader(w)
    \/ \E w \in DOMAIN workers : CallEnds(w)
    \/ \E w \in DOMAIN workers : WorkerFinally(w)
    \/ \E w \in DOMAIN workers : ThreadEnds(w)

\* The event loop keeps running callbacks, and a started thread keeps running
\* its own code; nothing makes the downloader call end, and nothing makes
\* the user click.
FairSpec ==
    /\ Init
    /\ [][DownloadNext]_vars
    /\ WF_vars(RunCallback)
    /\ \A w \in 1..MaxSubmits : WF_vars(WorkerFinally(w))

----------------------------------------------------------------------------
(* One download as the downloader reports it: a progress dict of 50 bytes   *)
(* out of 100, then the dict of the finished file.  The call may return or  *)
(* raise at any point, and the user touches the Download button only.       *)

\* The dicts the downloader passes to the hook, in this order.
Script ==
    << [status |-> "downloading", downloaded_bytes |-> 50, total_bytes |-> 100],
       [status |-> "finished", filename |-> "f"] >>

\* The downloader of worker w reports the next dict of the script.
ScriptedDownloader(w) ==
    /\ workers[w].hooks < Len(Script)
    /\ progress_hook(w, Script[workers[w].hooks + 1])

ScenarioNext ==
    \/ ClickDownload
    \/ RunCallback
    \/ \E w \in DOMAIN workers : ScriptedDownloader(w)
    \/ \E w \in DOMAIN workers : CallEnds(w)
    \/ \E w \in DOMAIN workers : WorkerFinally(w)
    \/ \E w \in DOMAIN workers : ThreadEnds(w)

ScenarioSpec == Init /\ [][ScenarioNext]_vars

----------------------------------------------------------------------------
(* Downloads whose downloader reports more bytes than the total it knows,   *)
(* as with a total that was estimated too low.  The user touches the        *)
(* Download button only.                                                    *)

\* Progress dicts below and above their total.
ClampEvents ==
    { [status |-> "downloading", downloaded_bytes |-> a, total_bytes |-> 100] :
        a \in {50, 150} }
    \cup { [status |-> "downloading", downloaded_bytes |-> 101,
            total_bytes_estimate |-> 100] }

\* The downloader of worker w reports one of these dicts, up to MaxHooks
\* times in a download.
OverDownloader(w) ==
    /\ workers[w].hooks < MaxHooks
    /\ \E d \in ClampEvents : progress_hook(w, d)

ClampNext ==
    \/ ClickDownload
    \/ RunCallback
    \/ \E w \in DOMAIN workers : OverDownloader(w)
    \/ \E w \in DOMAIN workers : CallEnds(w)
    \/ \E w \in DOMAIN workers : WorkerFinally(w)
    \/ \E w \in DOMAIN workers : ThreadEnds(w)

ClampSpec == Init /\ [][ClampNext]_vars

----------------------------------------------------------------------------
(* The hook and the progress callback on their own: one download is in      *)
(* flight, the downloader reports one progress dict out of a wide range,    *)
(* and the event loop runs the callback the hook scheduled.                 *)

\* Dicts with both byte counts: every pair up to MaxBytes.
ByteEvents ==
    { [status |-> "downloading", downloaded_bytes |-> a, total_bytes |-> b] :
        a \in 0..MaxBytes, b \in 1..MaxBytes }

\* A dict of the status with the keys of the optional values that are there.
Dict(status, downloaded, total, estimate) ==
    LET keys == {"status"}
                \cup (IF downloaded = <<>> THEN {} ELSE {"downloaded_bytes"})
                \cup (IF total = <<>> THEN {} ELSE {"total_bytes"})
                \cup (IF estimate = <<>> THEN {} ELSE {"total_bytes_estimate"})
    IN  [k \in keys |->
            CASE k = "status" -> status
              [] k = "downloaded_bytes" -> downloaded[1]
              [] k = "total_bytes" -> total[1]
              [] k = "total_bytes_estimate" -> estimate[1]]

\* Dicts with byte counts missing or zero, and with an estimated total.
SparseEvents ==
    { Dict("downloading", a, b, e) :
        a \in {<<>>, <<0>>, <<3>>}, b \in {<<>>, <<0>>, <<7>>},
        e \in {<<>>, <<0>>, <<7>>} }

\* Base-1024 digits byte rates are made of, least significant first.
RateDigits == {0, 1, 2, 256, 500, 512, 1023}

\* The byte rates of up to MaxDigits digits; the last digit is not 0.
Rates ==
    UNION { { r \in [1..n -> RateDigits] : n = 0 \/ r[n] # 0 } :
            n \in 0..MaxDigits }

\* Dicts with a speed, and with or without an eta.
RateEvents ==
    { [status |-> "downloading", downloaded_bytes |-> 1, total_bytes |-> 2,
       speed |-> r] : r \in Rates }
    \cup { [status |-> "downloading", downloaded_bytes |-> 1,
            total_bytes |-> 2, speed |-> r, eta |-> t] :
             r \in {<<>>, <<500>>}, t \in {0, 5} }

\* Dicts of the other statuses.
OtherEvents ==
    { [status |-> "finished", filename |-> "f"],
      [status |-> "finished", filename |-> ""],
      [status |-> "finished"],
      [status |-> "error"] }

HookEvents == ByteEvents \cup SparseEvents \cup RateEvents \cup OtherEvents

\* The state after an accepted submission, the worker inside extract_info.
HookInit ==
    /\ ffmpeg_path \in FfmpegPaths \ {""}
    /\ yt_dlp = TRUE
    /\ downloading = TRUE
    /\ stop_flag = FALSE
    /\ dl_btn = "disabled"
    /\ progress = 0
    /\ status_var = "Starting..."
    /\ dest_var = HomeDir
    /\ alert = ""
    /\ log_text = << "FFmpeg detected: " \o ffmpeg_path,
                     "Queued download: u -> MP3 in " \o HomeDir >>
    /\ after_queue = <<>>
    /\ workers = << NewWorker("u", HomeDir, "mp3") >>
    /\ last = Step("ui", "_start_download")

\* The downloader reports one dict of the wide range.
HookCall == \E d \in HookEvents : workers[1].hooks = 0 /\ progress_hook(1, d)

HookNext == HookCall \/ RunCallback

HookSpec == HookInit /\ [][HookNext]_vars

----------------------------------------------------------------------------
(* Properties *)

\* C1: a submission made while a download is in flight is a no-op: it starts
\* no worker, raises no message box and leaves the in-flight request's flag,
\* button, progress bar, status, log and scheduled callbacks as they were.
C1_SingleFlightSubmit ==
    [][(downloading /\ last'.op = "_start_download")
         => /\ UNCHANGED <<downloading, stop_flag, dl_btn, progress,
                           status_var, log_text, dest_var, workers,
                           after_queue>>
            /\ alert' = ""]_vars

\* C1 happens: a click on Download came after the downloader of the running
\* request had already reported progress.
C1_Witness ==
    /\ downloading
    /\ last.op = "_start_download"
    /\ workers[Len(workers)].hooks > 0

\* The downloader call of the request in flight has ended, by a return or
\* by an exception, and its cleanup has not run: the flag is still set.
CallEnded ==
    /\ downloading
    /\ workers # <<>>
    /\ workers[Len(workers)].pc \in {"finally", "exit", "done"}

\* C2: whenever the downloader call of an accepted request has ended, by a
\* return or by an exception, the cleanup of that request eventually runs
\* on the UI thread, and right after it the flag is false and the Download
\* button enabled.
C2_GuaranteedCleanup ==
    CallEnded ~> (last.op = "_reset_ui" /\ ~downloading /\ dl_btn = "normal")

\* C2 happens: the cleanup has just run for a request whose downloader call
\* raised after it had reported progress.
C2_Witness ==
    /\ last.op = "_reset_ui"
    /\ ~downloading
    /\ dl_btn = "normal"
    /\ workers[Len(workers)].pc = "done"
    /\ workers[Len(workers)].result = "raised"
    /\ workers[Len(workers)].hooks > 0

\* The step just taken is a click on Download with these contents of the URL
\* entry and the format box.
Submit(url_text, fmt_text) ==
    _start_download(url_text, fmt_text) /\ UNCHANGED after_queue

\* The three conditions on the input of a submission, as the user sees them.
NoUrl(url_text) == Strip(url_text) = ""
BadFolder == ~IsDir(Strip(dest_var))
NeedsFfmpeg(fmt_text) ==
    Lower(Strip(fmt_text)) \in {"mp3", "wav"} /\ ffmpeg_path = ""

\* C3 as stated: every submission with an empty URL raises "No URL", every
\* one with a destination that is no directory raises "Invalid Folder",
\* every one of mp3 or wav without FFmpeg raises "FFmpeg required", and none
\* of them starts a worker.
C3_EveryFailingSubmitAlerts ==
    [][last'.op = "_start_download" =>
        \A url_text \in Urls, fmt_text \in Formats :
          Submit(url_text, fmt_text)
            => /\ NoUrl(url_text)
                    => alert' = "No URL" /\ workers' = workers
               /\ BadFolder
                    => alert' = "Invalid Folder" /\ workers' = workers
               /\ NeedsFfmpeg(fmt_text)
                    => alert' = "FFmpeg required" /\ workers' = workers]_vars

\* The box of the first condition that fails, in the order URL, folder,
\* FFmpeg; "" when none fails.
FirstFailure(url_text, fmt_text) ==
    IF NoUrl(url_text) THEN "No URL"
    ELSE IF BadFolder THEN "Invalid Folder"
    ELSE IF NeedsFfmpeg(fmt_text) THEN "FFmpeg required"
    ELSE ""

\* C3, amended: a submission with an empty URL, a destination that is no
\* directory or an audio format without FFmpeg never starts a worker; made
\* while no download is in flight it raises exactly the box of the first of
\* these conditions that fails, and made during a download it raises none.
C3_FirstFailingSubmitAlerts ==
    [][last'.op = "_start_download" =>
        \A url_text \in Urls, fmt_text \in Formats :
          (Submit(url_text, fmt_text) /\ FirstFailure(url_text, fmt_text) # "")
            => /\ workers' = workers
               /\ alert' = IF downloading THEN ""
                           ELSE FirstFailure(url_text, fmt_text)]_vars

\* C3 happens: a submission with an empty URL, a missing folder and no FFmpeg
\* raised "No URL".
C3_Witness ==
    /\ last.op = "_start_download"
    /\ alert = "No URL"
    /\ BadFolder
    /\ ffmpeg_path = ""

\* C4: a submission that fails a check (URL, folder, FFmpeg, yt-dlp) leaves
\* the flag false and the button enabled, and changes neither progress bar,
\* status, log, workers nor the scheduled callbacks.
C4_RejectedSubmitChangesNothing ==
    [][last'.op = "_start_download" =>
        \A url_text \in Urls, fmt_text \in Formats :
          (/\ Submit(url_text, fmt_text)
           /\ ~downloading
           /\ (FirstFailure(url_text, fmt_text) # "" \/ ~yt_dlp))
            => /\ ~downloading'
               /\ dl_btn = "normal" /\ dl_btn' = "normal"
               /\ UNCHANGED <<stop_flag, progress, status_var, log_text,
                              workers, after_queue>>]_vars

\* C4 happens: a submission was rejected after an earlier download had left
\* its traces on the progress bar and the status.
C4_Witness ==
    /\ last.op = "_start_download"
    /\ alert = "No URL"
    /\ progress = 50
    /\ status_var = "Done"

\* The lines of the log.
LogLines == {log_text[i] : i \in DOMAIN log_text}

\* C5: the final status tells the outcome.  The error callback of a failed
\* call runs while the request is still in flight and shows "Error", an
\* "ERROR:" line and the error box; the cleanup that follows leaves "Error"
\* in place.  The "Completed:" line of a returned call is logged while the
\* request is in flight, and the cleanup that follows shows "Done".
C5_OutcomeInFinalStatus ==
    [][/\ (last'.op = "_on_download_error" /\ after_queue' # after_queue)
            => /\ downloading /\ downloading'
               /\ workers[Len(workers)].result = "raised"
               /\ status_var' = "Error"
               /\ alert' = "Download Error"
               /\ \E err \in Errors :
                     log_text' = Append(log_text, "ERROR: " \o err)
       /\ (last'.op = "_append_log" /\ after_queue' # after_queue)
            => /\ downloading /\ downloading'
               /\ workers[Len(workers)].result = "returned"
               /\ \E title \in Titles \cup {"video"} :
                     log_text' = Append(log_text, "Completed: " \o title)
       /\ (last'.op = "_reset_ui" /\ after_queue' # after_queue)
            => /\ workers[Len(workers)].result = "raised"
                    => status_var = "Error" /\ status_var' = "Error"
               /\ workers[Len(workers)].result = "returned"
                    => status_var # "Error" /\ status_var' = "Done"
               /\ workers[Len(workers)].result # "pending"
               /\ \A i \in DOMAIN after_queue :
                     after_queue[i].fn \notin {"_on_download_error",
                                               "_append_log"}]_vars

\* C5 happens: a request ended with "Done" after the one before it had
\* ended with an error.
C5_Witness ==
    /\ last.op = "_reset_ui"
    /\ status_var = "Done"
    /\ workers[Len(workers)].result = "returned"
    /\ \E err \in Errors : ("ERROR: " \o err) \in LogLines

\* The input of a submission passes every check.
Valid(url_text, fmt_text) == FirstFailure(url_text, fmt_text) = "" /\ yt_dlp

\* C6: a worker is started by an accepted submission and by nothing else, one
\* per submission: no callback and no worker step starts one, so a failed
\* download is not tried again; and a valid submission made when no download
\* is in flight, after a failure as well, is accepted and starts one worker.
C6_FailureNotRetried ==
    [][/\ workers' # workers
            => \/ /\ Len(workers') = Len(workers)
                  /\ last'.thread = "worker"
               \/ /\ workers' = Append(workers, workers'[Len(workers')])
                  /\ last' = Step("ui", "_start_download")
                  /\ ~downloading /\ downloading'
       /\ last'.op = "_start_download" =>
            \A url_text \in Urls, fmt_text \in Formats :
               (/\ Submit(url_text, fmt_text)
                /\ ~downloading
                /\ Valid(url_text, fmt_text))
                 => /\ Len(workers') = Len(workers) + 1
                    /\ downloading'
                    /\ status_var' = "Starting..."
                    /\ alert' = ""]_vars

\* C6 happens: a download failed, its cleanup ran, and the next submission
\* was accepted.
C6_Witness ==
    /\ Len(workers) = 2
    /\ workers[1].result = "raised"
    /\ workers[1].pc = "done"
    /\ workers[2].pc = "call"
    /\ downloading
    /\ status_var = "Starting..."
    /\ last.op = "_start_download"

\* after_queue' is after_queue with at most one callback more at its end.
Enqueued ==
    \/ after_queue' = after_queue
    \/ /\ Len(after_queue') = Len(after_queue) + 1
       /\ SubSeq(after_queue', 1, Len(after_queue)) = after_queue

\* C10: flag, button, progress bar, status, log, folder and message boxes
\* change in steps of the UI thread only; a step of a worker thread leaves
\* them alone and at most appends one callback to the queue of root.after.
C10_ThreadConfinement ==
    [][/\ ui_state' # ui_state => last'.thread = "ui"
       /\ (last'.thread = "worker" /\ workers' # workers)
            => UNCHANGED ui_state /\ Enqueued]_vars

\* C10 happens: the hook has run on a worker thread and the widgets still
\* show what the UI thread wrote last.
C10_Witness ==
    /\ last.thread = "worker"
    /\ last.op = "progress_hook"
    /\ last.d.status = "downloading"
    /\ after_queue # <<>>
    /\ status_var = "Starting..."
    /\ progress = 0

\* The hook has just been handed a dict of status "downloading".
Hooked == last.op = "progress_hook" /\ last.d.status = "downloading"

\* The callback the hook has just scheduled.
Scheduled == after_queue[Len(after_queue)]

\* C7 as stated: for a dict with total_bytes > 0 and 0 <= downloaded_bytes <=
\* total_bytes the hook schedules the percentage floor(downloaded / total *
\* 100), and the progress bar then shows it, clamped into 0..100.
C7_PercentIsFloor ==
    (/\ last.op \in {"progress_hook", "_update_progress"}
     /\ last.d.status = "downloading"
     /\ {"total_bytes", "downloaded_bytes"} \subseteq DOMAIN last.d
     /\ last.d.total_bytes > 0
     /\ last.d.downloaded_bytes >= 0
     /\ last.d.downloaded_bytes <= last.d.total_bytes)
      => LET floor == (last.d.downloaded_bytes * 100) \div last.d.total_bytes
         IN  IF last.op = "progress_hook"
             THEN after_queue # <<>> /\ Scheduled.percent = floor
             ELSE progress = Max(0, Min(100, floor))

\* C8 as stated: for a dict whose total_bytes is zero or absent, or whose
\* downloaded_bytes is absent, the hook schedules a 0% update.
C8_NoTotalIsZeroPercent ==
    (/\ Hooked
     /\ \/ ~TruthyInt(Get(last.d, "total_bytes"))
        \/ Get(last.d, "downloaded_bytes") = <<>>)
      => /\ after_queue # <<>>
         /\ Scheduled = [fn |-> "_update_progress", percent |-> 0,
                         d |-> last.d]

\* C8, amended: for a dict with neither total_bytes nor total_bytes_estimate
\* above zero, or with downloaded_bytes absent or zero, the hook schedules a
\* 0% update, and the callback shows 0 on the bar and "0%" in the status.
C8_NoTotalNoEstimateIsZeroPercent ==
    LET d == last.d
        unknown ==
            \/ /\ ~TruthyInt(Get(d, "total_bytes"))
               /\ ~TruthyInt(Get(d, "total_bytes_estimate"))
            \/ ~TruthyInt(Get(d, "downloaded_bytes"))
    IN  /\ (Hooked /\ unknown)
              => /\ after_queue # <<>>
                 /\ Scheduled = [fn |-> "_update_progress", percent |-> 0,
                                 d |-> d]
        /\ (last.op = "_update_progress" /\ unknown)
              => /\ progress = 0
                 /\ StartsWith(status_var, "Downloading... 0%")

\* C8 happens: a dict with no byte count at all was scheduled as a 0% update.
C8_Witness ==
    /\ Hooked
    /\ last.d = [status |-> "downloading"]
    /\ after_queue # <<>>
    /\ Scheduled.percent = 0

\* a >= 0 ? a : -a
Abs(a) == IF a < 0 THEN -a ELSE a

\* tenth is one of the nearest numbers of tenths to f / 1024^k, for
\* 0 <= f < 1024^k: |tenth * 1024^k - 10 * f| <= 1024^k / 2, worked out
\* without a product above 2^31.
NearestTenth(tenth, f, k) ==
    IF k = 0 THEN tenth = 0
    ELSE LET dh == 1024^(k - 1)
             a  == tenth * dh - 10 * (f \div 1024)
         IN  /\ Abs(a) <= dh + 10
             /\ Abs(1024 * a - 10 * (f % 1024)) <= 512 * dh

\* The texts a rate of these base-1024 digits may be shown as: the value over
\* the largest of B/s, KB/s, MB/s, GB/s that is not above it, to the nearest
\* tenth.
RateTexts(digits) ==
    LET k  == CHOOSE j \in 0..3 :
                 /\ Len(digits) >= j + 1
                 /\ j = 3 \/ Len(digits) <= j + 1
        ip == DigitsNat(SubSeq(digits, k + 1, Len(digits)))
        f  == DigitsNat(SubSeq(digits, 1, k))
    IN  { ToString(ip + tenth \div 10) \o "." \o ToString(tenth % 10) \o " "
          \o <<"B/s", "KB/s", "MB/s", "GB/s">>[k + 1] :
            tenth \in {t \in 0..10 : NearestTenth(t, f, k)} }

LiveWorkers == {w \in DOMAIN workers : workers[w].pc # "done"}

\* C11 as stated: in every reachable state at most one worker thread is
\* alive, the time between a worker scheduling its cleanup and its thread
\* ending included.
C11_AtMostOneLiveWorker == Cardinality(LiveWorkers) <= 1

\* C12: without FFmpeg, a submission of mp4 with a URL, an existing folder
\* and yt-dlp installed, made while no download is in flight, is accepted
\* and starts a worker; the same submission with mp3 or wav is rejected with
\* "FFmpeg required" and starts none.
C12_VideoNeedsNoFfmpeg ==
    [][last'.op = "_start_download" =>
        \A url_text \in Urls, fmt_text \in Formats :
          (/\ Submit(url_text, fmt_text)
           /\ ~downloading
           /\ ffmpeg_path = ""
           /\ ~NoUrl(url_text) /\ ~BadFolder /\ yt_dlp)
            => IF Lower(Strip(fmt_text)) = "mp4"
               THEN /\ workers' = Append(workers,
                                    NewWorker(Strip(url_text), Strip(dest_var),
                                              "mp4"))
                    /\ downloading'
                    /\ alert' = ""
               ELSE /\ workers' = workers
                    /\ ~downloading'
                    /\ alert' = "FFmpeg required"]_vars

\* C12 happens: an mp4 download was started without FFmpeg.
C12_Witness ==
    /\ ffmpeg_path = ""
    /\ last.op = "_start_download"
    /\ downloading
    /\ workers # <<>>
    /\ workers[Len(workers)].fmt = "mp4"
    /\ workers[Len(workers)].pc = "call"

\* The checks a submission fails, in the order in which the user is told:
\* URL, folder, FFmpeg, yt-dlp.
FailingChecks(url_text, fmt_text) ==
    SelectSeq(<<"No URL", "Invalid Folder", "FFmpeg required",
                "yt-dlp not installed">>,
              LAMBDA title :
                 \/ title = "No URL" /\ NoUrl(url_text)
                 \/ title = "Invalid Folder" /\ BadFolder
                 \/ title = "FFmpeg required" /\ NeedsFfmpeg(fmt_text)
                 \/ title = "yt-dlp not installed" /\ ~yt_dlp)

\* C19: a submission, made while no download is in flight, that fails
\* several of the checks empty URL, invalid folder, missing FFmpeg for mp3 or
\* wav, missing yt-dlp raises one box, that of the first failing check in
\* this order, and nothing else happens; later failing checks are not
\* reported.
C19_FirstFailingCheckOnly ==
    [][last'.op = "_start_download" =>
        \A url_text \in Urls, fmt_text \in Formats :
          (/\ Submit(url_text, fmt_text)
           /\ ~downloading
           /\ FailingChecks(url_text, fmt_text) # <<>>)
            => /\ alert' = Head(FailingChecks(url_text, fmt_text))
               /\ UNCHANGED <<downloading, stop_flag, dl_btn, progress,
                              status_var, log_text, workers, after_queue>>]_vars

\* C19 happens: a submission failing the folder, FFmpeg and yt-dlp checks
\* raised "Invalid Folder".
C19_Witness ==
    /\ last.op = "_start_download"
    /\ alert = "Invalid Folder"
    /\ BadFolder
    /\ ffmpeg_path = ""
    /\ ~yt_dlp
    /\ ~downloading

\* The downloader call of worker w has neither returned nor raised.
InCall(w) == workers[w].pc = "call"

\* While a downloader call is running, the flag is set and the button is
\* disabled; the stop flag is false.
Running ==
    /\ stop_flag = FALSE
    /\ \A w \in DOMAIN workers :
          InCall(w) => downloading /\ dl_btn = "disabled"

\* C17: there is no cancellation.  While the downloader call of an accepted
\* submission has neither returned nor raised, the flag is true and the
\* button disabled, and no click on Download, Choose Folder or Clear Log
\* changes flag, button or workers; the stop flag is false in every state;
\* a call ends only by a step of its own thread, returning or raising, and
\* the flag is cleared only by _reset_ui after the call has ended.
C17_NoCancellation ==
    /\ Running
    /\ [][/\ Running'
          /\ \A w \in DOMAIN workers :
               InCall(w) =>
                 /\ last'.op \in {"_start_download", "_choose_folder",
                                  "_clear_log"}
                      => UNCHANGED <<downloading, stop_flag, dl_btn, workers,
                                     after_queue>>
                 /\ workers'[w].pc # "call"
                      => /\ last' = Step("worker", "_download_worker")
                         /\ workers'[w].pc = "finally"
                         /\ workers'[w].result \in {"returned", "raised"}
          /\ (downloading /\ ~downloading')
               => /\ last'.op = "_reset_ui"
                  /\ workers[Len(workers)].result \in {"returned", "raised"}
                  /\ workers[Len(workers)].pc \in {"exit", "done"}]_vars

\* C17 happens: during a download the user clicked Download again, chose a
\* folder or cleared the log, and the download is still running.
C17_Witness ==
    /\ workers # <<>>
    /\ InCall(Len(workers))
    /\ workers[Len(workers)].hooks > 0
    /\ last.op = "_clear_log"
    /\ dest_var = "/gone"
    /\ downloading
    /\ dl_btn = "disabled"

\* The cleanup of the latest accepted submission has not run yet: its worker
\* has not reached the end of its finally block, or the _reset_ui it
\* scheduled is still waiting in the event loop.
CleanupPending ==
    /\ workers # <<>>
    /\ \/ workers[Len(workers)].pc \in {"call", "finally"}
       \/ \E i \in DOMAIN after_queue : after_queue[i].fn = "_reset_ui"

\* C18: between callbacks of the UI thread the Download button is disabled
\* exactly when the flag is true, and the flag is true exactly from an
\* accepted submission until the cleanup of that submission has run: it is
\* false at the start, set by the accepted submission, and true exactly
\* while that cleanup is pending.
C18_ButtonFollowsFlag ==
    /\ ~downloading /\ dl_btn = "normal"
    /\ [][/\ (dl_btn' = "disabled") <=> downloading'
          /\ downloading' <=> CleanupPending'
          /\ (~downloading /\ downloading')
               => /\ last'.op = "_start_download"
                  /\ Len(workers') = Len(workers) + 1
          /\ (downloading /\ ~downloading') => last'.op = "_reset_ui"]_vars

\* C18 happens: the cleanup of a submission ran and cleared the flag, and
\* the next submission set it again.
C18_Witness ==
    /\ Len(workers) = 2
    /\ downloading
    /\ dl_btn = "disabled"
    /\ CleanupPending
    /\ workers[2].pc = "finally"

\* The place of a callback in the order in which a worker schedules the
\* callbacks of its download: progress updates, the finished file, the
\* completion line or the error, the cleanup.
Rank(cb) ==
    CASE cb.fn = "_update_progress" -> 1
      [] cb.fn = "_on_download_finished" -> 2
      [] cb.fn \in {"_append_log", "_on_download_error"} -> 3
      [] cb.fn = "_reset_ui" -> 4

\* The callbacks waiting in the event loop are in the order of their ranks,
\* with one completion or error and one cleanup at most.
QueueInOrder ==
    \A i, j \in DOMAIN after_queue :
       i < j => /\ Rank(after_queue[i]) <= Rank(after_queue[j])
                /\ Rank(after_queue[j]) >= 3
                     => Rank(after_queue[i]) < Rank(after_queue[j])

\* C14: the UI thread applies the callbacks of a download in the order the
\* worker scheduled them: progress updates, the finished file, completion or
\* error, cleanup.  The worker appends at the end of the queue and the UI
\* thread runs its head; the cleanup leaves no callback of the download
\* behind, and its worker schedules none after it; after the cleanup, and
\* until the next accepted submission, status, progress bar and log change
\* by the user's own clicks only.
C14_CallbackOrder ==
    /\ QueueInOrder
    /\ [][/\ QueueInOrder'
          /\ after_queue' # after_queue
               => \/ /\ after_queue # <<>>
                     /\ after_queue' = Tail(after_queue)
                     /\ last'.thread = "ui"
                     /\ last'.op = Head(after_queue).fn
                  \/ /\ Len(after_queue') = Len(after_queue) + 1
                     /\ SubSeq(after_queue', 1, Len(after_queue)) = after_queue
                     /\ last'.thread = "worker"
                     /\ \E w \in DOMAIN workers :
                           /\ workers[w].pc \in {"call", "finally"}
                           /\ workers'[w] # workers[w]
          /\ last'.op = "_reset_ui"
               => /\ after_queue' = <<>>
                  /\ workers[Len(workers)].pc \in {"exit", "done"}
                  /\ status_var' = "Done" \/ status_var' = "Error"
          /\ (~downloading /\ <<status_var, progress, log_text>>'
                                # <<status_var, progress, log_text>>)
               => last'.op \in {"_start_download", "_clear_log"}]_vars

\* C14 happens: the progress update, the finished file and the completion
\* line of a download were applied, in this order, and its cleanup ran last.
C14_Witness ==
    /\ last.op = "_reset_ui"
    /\ workers # <<>>
    /\ workers[Len(workers)].hooks = 2
    /\ log_text[Len(log_text)] = "Completed: T"
    /\ log_text[Len(log_text) - 1] = "Downloaded to: f"
    /\ log_text[Len(log_text) - 2] = "Downloading... 50%"
    /\ status_var = "Done"
    /\ after_queue = <<>>

\* The latest submission was an mp4 download whose downloader reported 50
\* bytes out of 100 and then the finished file, and returned.
Succeeded ==
    /\ workers # <<>>
    /\ workers[Len(workers)].fmt = "mp4"
    /\ workers[Len(workers)].hooks = Len(Script)
    /\ workers[Len(workers)].result = "returned"

\* C13: for an accepted mp4 download whose downloader reports 50 bytes out
\* of 100, then the finished file, and then returns: when the completion
\* line or the cleanup is the next callback to run, the bar is at 50, the
\* log has the line "Downloaded to: f" and the status is "Post-processing...";
\* and once every scheduled callback has run, the bar is at 50, the log has
\* that line, the status is "Done", the button is enabled and the flag is
\* false.
C13_SuccessScenario ==
    Succeeded =>
      /\ (after_queue # <<>> /\ Head(after_queue).fn \in {"_append_log",
                                                        "_reset_ui"})
           => /\ progress = 50
              /\ "Downloading... 50%" \in LogLines
              /\ "Downloaded to: f" \in LogLines
              /\ status_var = "Post-processing..."
              /\ downloading /\ dl_btn = "disabled"
      /\ (after_queue = <<>> /\ workers[Len(workers)].pc \in {"exit", "done"})
           => /\ progress = 50
              /\ "Downloaded to: f" \in LogLines
              /\ "Completed: T" \in LogLines
              /\ status_var = "Done"
              /\ dl_btn = "normal"
              /\ ~downloading

\* C13 happens: such a download has ended and all its callbacks have run.
C13_Witness ==
    /\ Succeeded
    /\ after_queue = <<>>
    /\ workers[Len(workers)].pc = "done"
    /\ last.op = "_download_worker"
    /\ status_var = "Done"
    /\ progress = 50

\* C16: the progress callback appends a line to the log exactly when its
\* percentage is divisible by 5, and the line is the status text it has just
\* set; for any other percentage it sets the bar and the status and leaves
\* the log as it is.
C16_LogEveryFivePercent ==
    [][last'.op = "_update_progress" =>
        LET percent == Head(after_queue).percent
        IN  /\ progress' = Max(0, Min(100, percent))
            /\ StartsWith(status_var',
                          "Downloading... " \o ToString(percent) \o "%")
            /\ status_var' # status_var
            /\ IF percent % 5 = 0
               THEN log_text' = Append(log_text, status_var')
               ELSE log_text' = log_text]_vars

\* C16 happens: an update of 42 percent moved the bar and changed the
\* status, and the log still has the two lines it had before.
C16_Witness ==
    /\ last.op = "_update_progress"
    /\ progress = 42
    /\ status_var = "Downloading... 42%"
    /\ Len(log_text) = 2

\* C15: the value of the progress bar is between 0 and 100 in every state,
\* also when the downloader reports more bytes than the total: the progress
\* callback writes the percentage clamped to 0..100, and an accepted
\* submission sets the bar to 0.
C15_ProgressInRange ==
    /\ progress \in 0..100
    /\ [][/\ progress' \in 0..100
          /\ last'.op = "_update_progress"
               => progress' = Max(0, Min(100, Head(after_queue).percent))
          /\ Len(workers') > Len(workers) => progress' = 0
          /\ progress' # progress
               => last'.op \in {"_update_progress", "_start_download"}]_vars

\* C15 happens: an update of 150 percent left the bar at 100, and the next
\* accepted submission set it to 0.
C15_Witness ==
    /\ last.op = "_start_download"
    /\ Len(workers) = 2
    /\ workers[2].hooks = 0
    /\ "Downloading... 150%" \in LogLines
    /\ progress = 0

============================================================================
